---- MODULE Spec2Model ----
(***************************************************************************)
(* Keyword-scored context selection of the FAQ agent                       *)
(* (agent-simple-rag.js): knowledge base cache, document derivation,       *)
(* question tokenizer, relevance scorer, selector and context formatting.  *)
(*                                                                         *)
(* A JavaScript string is modelled as a sequence of one-character strings. *)
(***************************************************************************)
EXTENDS Integers, Sequences, FiniteSets, TLC

\* ------------------------------------------------------------------ bounds
\* a question is the concatenation of at most MaxPieces pieces of Pieces
MaxPieces == 3
\* number of runFAQAgent calls made in one process
MaxCalls == 2
\* number of calls that can be in flight (awaiting the language model) at once
MaxInFlight == 2

\* --------------------------------------------------------------- constants
\* .slice(0, 5)
TopK == 5
\* word.length > 2
MinWordLength == 2

\* ----------------------------------------------------------------- strings
UpperChars ==
  <<"A","B","C","D","E","F","G","H","I","J","K","L","M",
    "N","O","P","Q","R","S","T","U","V","W","X","Y","Z">>

LowerChars ==
  <<"a","b","c","d","e","f","g","h","i","j","k","l","m",
    "n","o","p","q","r","s","t","u","v","w","x","y","z">>

\* the characters /\s/ matches, as far as this model's strings contain them
WhitespaceChars == {" ", "\t", "\n", "\r", "\f"}

\* String.prototype.toLowerCase, one character
LowerCaseOf(ch) ==
  IF \E i \in 1..26 : UpperChars[i] = ch
  THEN LowerChars[CHOOSE i \in 1..26 : UpperChars[i] = ch]
  ELSE ch

\* String.prototype.toLowerCase
ToLowerCase(s) == [i \in 1..Len(s) |-> LowerCaseOf(s[i])]

\* the word found only between characters that are no letters
IncludesWholeWord(text, word) ==
  \/ Len(word) = 0
  \/ \E i \in 1..(Len(text) - Len(word) + 1) :
        /\ SubSeq(text, i, i + Len(word) - 1) = word
        /\ (i = 1 \/ \A u \in 1..26 : text[i - 1] # LowerChars[u])
        /\ (i + Len(word) > Len(text)
              \/ \A u \in 1..26 : text[i + Len(word)] # LowerChars[u])

\* String.prototype.includes: word occurs as a substring of text
Includes(text, word) ==
  \/ Len(word) = 0
  \/ \E i \in 1..(Len(text) - Len(word) + 1) :
        /\ text[i] = word[1]
        /\ SubSeq(text, i, i + Len(word) - 1) = word

RECURSIVE SplitFrom(_, _, _, _)
\* String.prototype.split(/\s+/): the pieces between maximal whitespace runs;
\* a leading or trailing run leaves an empty piece, "" splits into [""]
SplitFrom(s, i, cur, inWs) ==
  IF i > Len(s) THEN <<cur>>
  ELSE IF s[i] \in WhitespaceChars
       THEN IF inWs THEN SplitFrom(s, i + 1, cur, TRUE)
            ELSE <<cur>> \o SplitFrom(s, i + 1, <<>>, TRUE)
       ELSE SplitFrom(s, i + 1, Append(cur, s[i]), FALSE)

SplitWhitespace(s) == SplitFrom(s, 1, <<>>, FALSE)

RECURSIVE Join(_, _)
\* Array.prototype.join
Join(parts, sep) ==
  IF Len(parts) = 0 THEN <<>>
  ELSE IF Len(parts) = 1 THEN parts[1]
  ELSE parts[1] \o sep \o Join(Tail(parts), sep)

\* ------------------------------------------------------------ the selector
StopWords ==
  { <<"t","h","e">>, <<"a">>, <<"a","n">>, <<"i","s">>, <<"a","r","e">>, <<"w","h","a","t">>, <<"w","h","o">>,
    <<"w","h","e","r","e">>, <<"w","h","e","n">>, <<"w","h","y">>, <<"h","o","w">>, <<"d","o","e","s">>, <<"d","o">>,
    <<"c","a","n">>, <<"c","o","u","l","d">> }

\* words of two characters kept
IsWordOfTwoOrMore(word) == Len(word) >= MinWordLength

IsLongWord(word) == Len(word) > MinWordLength

\* no stop word removed
KeepsEveryWord(word) == TRUE

IsNotStopWord(word) == word \notin StopWords

\* the question split as it is, not lower-cased
QuestionWordsCaseSensitive(question) ==
  SelectSeq(SelectSeq(SplitWhitespace(question), IsLongWord), IsNotStopWord)

\* questionWords: an array, a word repeated in the question is kept twice
QuestionWords(question) ==
  SelectSeq(SelectSeq(SplitWhitespace(ToLowerCase(question)), IsLongWord),
            IsNotStopWord)

\* one point per distinct word found in the content
ScoreDistinctWords(doc, questionWords) ==
  LET contentLower == ToLowerCase(doc.content)
  IN  Cardinality({ w \in { questionWords[i] : i \in 1..Len(questionWords) } :
                      Includes(contentLower, w) })

\* the content compared as it is, not lower-cased
ScoreCaseSensitive(doc, questionWords) ==
  Cardinality({ i \in 1..Len(questionWords) :
                  Includes(doc.content, questionWords[i]) })

\* the forEach over questionWords: one point per word found in the content
Score(doc, questionWords) ==
  LET contentLower == ToLowerCase(doc.content)
  IN  Cardinality({ i \in 1..Len(questionWords) :
                      Includes(contentLower, questionWords[i]) })

\* the scored copy holds the lower-cased content
ScoreDocumentsLowerCased(questionWords, documents) ==
  [i \in 1..Len(documents) |->
     [content |-> ToLowerCase(documents[i].content), type |-> documents[i].type,
      meta |-> documents[i].meta, score |-> Score(documents[i], questionWords)]]

\* documents.map(doc => ({ ...doc, score }))
ScoreDocuments(questionWords, documents) ==
  [i \in 1..Len(documents) |->
     [content |-> documents[i].content, type |-> documents[i].type,
      meta |-> documents[i].meta, score |-> Score(documents[i], questionWords)]]

\* documents of score 0 kept
HasAnyScore(doc) == doc.score >= 0

HasPositiveScore(doc) == doc.score > 0

\* .filter(doc => doc.score > 0)
FilterMatching(scoredDocs) == SelectSeq(scoredDocs, HasPositiveScore)

RECURSIVE InsertBeforeTies(_, _)
\* put doc in front of the documents of equal score
InsertBeforeTies(doc, sorted) ==
  IF sorted = <<>> THEN <<doc>>
  ELSE IF Head(sorted).score > doc.score
       THEN <<Head(sorted)>> \o InsertBeforeTies(doc, Tail(sorted))
       ELSE <<doc>> \o sorted

RECURSIVE InsertByScore(_, _)
\* put doc behind every document whose score is not smaller
InsertByScore(doc, sorted) ==
  IF sorted = <<>> THEN <<doc>>
  ELSE IF Head(sorted).score >= doc.score
       THEN <<Head(sorted)>> \o InsertByScore(doc, Tail(sorted))
       ELSE <<doc>> \o sorted

\* the documents left in the order of the derived list
SortNothing(docs) == docs

RECURSIVE SortByScore(_)
\* .sort((a, b) => b.score - a.score): descending, stable (ECMAScript 2019)
SortByScore(docs) ==
  IF docs = <<>> THEN <<>>
  ELSE InsertByScore(docs[Len(docs)], SortByScore(SubSeq(docs, 1, Len(docs) - 1)))

\* no truncation
SliceNothing(docs) == docs

\* .slice(0, 5)
SliceTop(docs) == SubSeq(docs, 1, IF Len(docs) < TopK THEN Len(docs) ELSE TopK)

FindRelevantDocuments(question, documents) ==
  SliceTop(SortByScore(FilterMatching(
    ScoreDocuments(QuestionWords(question), documents))))

\* ------------------------------------------------- parsed faq.json values
\* A parsed value: kind "null" is JSON null, kind "object" an object whose
\* "en" entry is present (hasEn) but for the fields named in missing.
Employee(name, role, area) == [name |-> name, role |-> role, area |-> area]

MissionArea(title, text, items) == [title |-> title, text |-> text, items |-> items]

Company(companyName, founder, coFounders, missionStatement, tagline, story) ==
  [companyName |-> companyName, founder |-> founder, coFounders |-> coFounders,
   missionStatement |-> missionStatement, tagline |-> tagline, story |-> story]

Contact(email, phone, address) ==
  [email |-> email, phone |-> phone, address |-> address]

KnowledgeBase(company, employees, mission, contact) ==
  [kind |-> "object", hasEn |-> TRUE, missing |-> {},
   companyName |-> company.companyName, founder |-> company.founder,
   coFounders |-> company.coFounders,
   missionStatement |-> company.missionStatement,
   tagline |-> company.tagline, story |-> company.story,
   employees |-> employees, mission |-> mission,
   email |-> contact.email, phone |-> contact.phone, address |-> contact.address]

KBEmpty ==
  KnowledgeBase(Company(<<>>, <<>>, <<>>, <<>>, <<>>, <<>>), <<>>, <<>>,
                Contact(<<>>, <<>>, <<>>))

\* the knowledge base of the example scenarios
KBAcme ==
  KnowledgeBase(
    Company(<<"A","c","m","e">>, <<"Z","e","d">>, <<<<"K","i","m">>>>, <<"W","e"," ","b","u","i","l","d"," ","A","P","I","s">>,
            <<"C","o","d","e"," ","f","i","r","s","t">>, <<"B","o","r","n"," ","2","0","2","0">>),
    <<Employee(<<"A","n","a">>, <<"E","n","g","i","n","e","e","r">>, <<"B","a","c","k","e","n","d">>),
      Employee(<<"L","e","o">>, <<"D","e","s","i","g","n","e","r">>, <<"F","r","o","n","t","e","n","d">>)>>,
    <<MissionArea(<<"B","a","c","k","e","n","d">>, <<"W","e"," ","b","u","i","l","d"," ","A","P","I","s">>, <<<<"N","o","d","e">>, <<"G","o">>>>)>>,
    Contact(<<"h","i","@","a","c","m","e",".","i","o">>, <<"1","2","3">>, <<"M","a","i","n"," ","S","t"," ","1">>))

\* six employees, two mission areas, names that occur in several documents
KBGlobex ==
  KnowledgeBase(
    Company(<<"G","l","o","b","e","x">>, <<"A","n","a">>, <<<<"L","e","o">>, <<"K","i","m">>>>, <<"S","h","i","p"," ","i","t">>,
            <<"A","I"," ","f","o","r"," ","a","l","l">>, <<"H","e"," ","s","a","i","d"," ","g","o"," ","a","g","a","i","n">>),
    <<Employee(<<"L","e","o">>, <<"C","E","O">>, <<"S","a","l","e","s">>),
      Employee(<<"A","n","a">>, <<"C","T","O">>, <<"A","I">>),
      Employee(<<"K","i","m">>, <<"D","e","v">>, <<"W","e","b">>),
      Employee(<<"J","o","a","n","a">>, <<"D","e","v">>, <<"D","a","t","a">>),
      Employee(<<"M","a","x">>, <<"O","p","s">>, <<"C","l","o","u","d">>),
      Employee(<<"E","v","e">>, <<"Q","A">>, <<"W","e","b">>)>>,
    <<MissionArea(<<"A","I"," ","&"," ","D","a","t","a">>, <<"M","o","d","e","l","s">>, <<<<"P","y","t","h","o","n">>>>),
      MissionArea(<<"M","o","b","i","l","e">>, <<"A","p","p","s"," ","f","o","r"," ","L","e","o">>, <<<<"S","w","i","f","t">>, <<"K","o","t","l","i","n">>>>)>>,
    Contact(<<"a","n","a","@","g","l","o","b","e","x",".","i","o">>, <<"5","5","5">>, <<"R","o","l","e",":"," ","R","o","a","d"," ","5">>))

\* JSON text "null"
JsonNull == [KBEmpty EXCEPT !.kind = "null", !.hasEn = FALSE]

\* JSON text "{}": no "en" entry
JsonNoEn == [KBEmpty EXCEPT !.hasEn = FALSE]

\* the Acme record without its "founder" entry
JsonNoFounder == [KBAcme EXCEPT !.missing = {"founder"}]

\* the Acme record without its "employees" entry
JsonNoEmployees == [KBAcme EXCEPT !.missing = {"employees"}]

WellFormedValues == {KBEmpty, KBAcme, KBGlobex}

JsonValues == WellFormedValues \cup {JsonNull, JsonNoEn, JsonNoFounder, JsonNoEmployees}

\* faq.json on disk: absent, not JSON, or the text of a JSON value
FileMissing == [state |-> "missing", value |-> JsonNull]

FileMalformed == [state |-> "malformed", value |-> JsonNull]

FileOf(value) == [state |-> "json", value |-> value]

Files == {FileMissing, FileMalformed} \cup { FileOf(v) : v \in JsonValues }

\* !faqDataCache
IsFalsy(data) == data.kind = "null"

\* ${data.en.<field>}: an absent entry is interpolated as "undefined"
Interpolate(data, field, value) ==
  IF field \in data.missing THEN <<"u","n","d","e","f","i","n","e","d">> ELSE value

\* createDocumentsFromData throws a TypeError: a property of null or
\* undefined is read, or join / forEach is called on undefined
DerivationThrows(data) ==
  \/ data.kind = "null"
  \/ ~data.hasEn
  \/ data.missing \cap {"co-founders", "employees", "mission", "contact", "hq"} # {}

CompanyInfoDocument(data) ==
  [content |->
        <<"C","o","m","p","a","n","y"," ","N","a","m","e",":"," ">> \o Interpolate(data, "companyName", data.companyName)
     \o <<"\n","F","o","u","n","d","e","r",":"," ">> \o Interpolate(data, "founder", data.founder)
     \o <<"\n","C","o","-","f","o","u","n","d","e","r","s",":"," ">> \o Join(data.coFounders, <<","," ">>)
     \o <<"\n","M","i","s","s","i","o","n"," ","S","t","a","t","e","m","e","n","t",":"," ">>
     \o Interpolate(data, "missionStatement", data.missionStatement)
     \o <<"\n","T","a","g","l","i","n","e",":"," ">> \o Interpolate(data, "tagline", data.tagline)
     \o <<"\n","S","t","o","r","y",":"," ">> \o Interpolate(data, "story", data.story),
   type |-> "company_info", meta |-> <<>>]

EmployeeDocument(emp) ==
  [content |-> <<"E","m","p","l","o","y","e","e",":"," ">> \o emp.name \o <<"\n","R","o","l","e",":"," ">> \o emp.role
                 \o <<"\n","A","r","e","a",":"," ">> \o emp.area,
   type |-> "employee", meta |-> emp.name]

MissionDocument(mission) ==
  [content |-> mission.title \o <<"\n">> \o mission.text
                 \o <<"\n","T","e","c","h","n","o","l","o","g","i","e","s",":"," ">> \o Join(mission.items, <<","," ">>),
   type |-> "mission", meta |-> mission.title]

ContactDocument(data) ==
  [content |-> <<"C","o","n","t","a","c","t"," ","I","n","f","o","r","m","a","t","i","o","n",":","\n","E","m","a","i","l",":"," ">> \o data.email
                 \o <<"\n","P","h","o","n","e",":"," ">> \o data.phone
                 \o <<"\n","A","d","d","r","e","s","s",":"," ">> \o data.address,
   type |-> "contact", meta |-> <<>>]

\* the mission documents pushed before the employee documents
CreateDocumentsMissionsFirst(data) ==
     <<CompanyInfoDocument(data)>>
  \o [i \in 1..Len(data.mission) |-> MissionDocument(data.mission[i])]
  \o [i \in 1..Len(data.employees) |-> EmployeeDocument(data.employees[i])]
  \o <<ContactDocument(data)>>

\* the documents array at the return of createDocumentsFromData
CreateDocumentsFromData(data) ==
     <<CompanyInfoDocument(data)>>
  \o [i \in 1..Len(data.employees) |-> EmployeeDocument(data.employees[i])]
  \o [i \in 1..Len(data.mission) |-> MissionDocument(data.mission[i])]
  \o <<ContactDocument(data)>>

\* ------------------------------------------------------- context building
\* `${metadata}\n${doc.content}` with metadata = `[${doc.type}]`
TypeTag(type) ==
  CASE type = "company_info" -> <<"[","c","o","m","p","a","n","y","_","i","n","f","o","]">>
    [] type = "employee" -> <<"[","e","m","p","l","o","y","e","e","]">>
    [] type = "mission" -> <<"[","m","i","s","s","i","o","n","]">>
    [] type = "contact" -> <<"[","c","o","n","t","a","c","t","]">>

RenderDocument(doc) == TypeTag(doc.type) \o <<"\n">> \o doc.content

\* the fallback built from the tagline in place of the mission statement
FallbackContextTagline(data) ==
  <<"C","o","m","p","a","n","y",":"," ">> \o Interpolate(data, "companyName", data.companyName)
    \o <<"\n">> \o Interpolate(data, "tagline", data.tagline)

\* `Company: ${companyName}\n${missionStatement}`
FallbackContext(data) ==
  <<"C","o","m","p","a","n","y",":"," ">> \o Interpolate(data, "companyName", data.companyName)
    \o <<"\n">> \o Interpolate(data, "missionStatement", data.missionStatement)

\* the context without the fallback branch
ContextBlocksNoFallback(relevantDocs, data) ==
  [i \in 1..Len(relevantDocs) |-> RenderDocument(relevantDocs[i])]

\* the blocks of the context: the rendered documents, or the fallback alone
ContextBlocks(relevantDocs, data) ==
  IF Len(relevantDocs) > 0
  THEN [i \in 1..Len(relevantDocs) |-> RenderDocument(relevantDocs[i])]
  ELSE <<FallbackContext(data)>>

BuildContext(relevantDocs, data) ==
  Join(ContextBlocks(relevantDocs, data), <<"\n","\n","-","-","-","\n","\n">>)

\* ------------------------------------------------------------------ inputs
\* the pieces questions are made of: a name, a stop word, a two-letter word,
\* a word of the document templates, whitespace and punctuation
Pieces == { <<"A","n","a">>, <<"t","h","e">>, <<"A","I">>, <<"r","o","l","e",":">>, <<" ">>, <<"?">> }

RECURSIVE Concatenations(_)
Concatenations(n) ==
  IF n = 0 THEN {<<>>}
  ELSE LET shorter == Concatenations(n - 1)
       IN  shorter \cup { q \o p : q \in shorter, p \in Pieces }

Questions == Concatenations(MaxPieces)

\* the questions asked while several calls are in flight
ConcurrentQuestions == { <<>>, <<"A","n","a"," ","r","o","l","e",":">> }

\* one question in other letter case, with more whitespace, with its words
\* in the other order and with all of it, and a question of other words
VariantQuestions ==
  { <<"A","n","a"," ","r","o","l","e",":">>, <<"a","N","A"," ","R","O","L","E",":">>, <<" ","A","n","a"," ","\t"," ","r","o","l","e",":","\n">>, <<"r","o","l","e",":"," ","A","n","a">>,
    <<"\t","R","O","L","E",":"," "," ","a","n","a"," ">>, <<"A","n","a"," ","A","n","a">> }

\* what agent.invoke resolves with: a response with messages, or without
Responses == {"messages", "empty"}

\* ------------------------------------------------------------------- state
VARIABLES
  file,            \* faq.json on disk
  faqDataCache,    \* the module variable faqDataCache
  loaderCalls,     \* how often JSON.parse(fs.readFileSync(...)) was invoked
  nCalls,          \* how many runFAQAgent calls were made
  calls,           \* the runFAQAgent calls: position and locals
  firstDocuments   \* the documents array of the first call that derived one

\* the process that runs the vector agent
VARIABLES
  vectorStoreCache,    \* its module variable vectorStoreCache
  vectorFaqDataCache,  \* its module variable faqDataCache
  embedRuns,           \* how often a vector store was built and cached
  nVectorCalls,        \* how many calls of its runFAQAgent were made
  vectorCalls          \* these calls: position and locals

\* the HTTP server in front of the keyword agent
VARIABLES
  http,                \* the requests: position, input and response
  nRequests            \* how many requests were received

keywordVars == <<faqDataCache, loaderCalls, nCalls, calls, firstDocuments>>

serverVars == <<http, nRequests>>

vectorVars ==
  <<vectorStoreCache, vectorFaqDataCache, embedRuns, nVectorCalls, vectorCalls>>

vars == <<file, keywordVars, vectorVars, serverVars>>

Calls == 1..MaxInFlight

IdleCall ==
  [pc |-> "idle", question |-> <<>>, kbAtStart |-> JsonNull,
   cacheHit |-> FALSE, data |-> JsonNull,
   questionWords |-> <<>>,
   documents |-> <<>>, scoredDocs |-> <<>>, relevantDocs |-> <<>>,
   context |-> <<>>,
   error |-> "none", answer |-> "none"]

\* vectorStoreCache = null
NullStore == [kind |-> "null", data |-> JsonNull, run |-> 0]

IdleVectorCall ==
  [pc |-> "idle", question |-> <<>>, cacheHit |-> FALSE,
   faqData |-> JsonNull, vectorStore |-> NullStore, context |-> <<>>, companyName |-> <<>>,
   error |-> "none", answer |-> "none"]

\* req.body.question or req.query.q: absent, or a parsed value
Undefined == [kind |-> "undefined", truthy |-> FALSE, text |-> <<>>]

IdleRequest ==
  [pc |-> "idle", route |-> "none", input |-> Undefined, agentCalled |-> FALSE,
   responses |-> 0, status |-> 0, body |-> "none", message |-> "none"]

Init ==
  /\ http = [c \in Calls |-> IdleRequest]
  /\ nRequests = 0
  /\ vectorStoreCache = NullStore
  /\ vectorFaqDataCache = JsonNull
  /\ embedRuns = 0
  /\ nVectorCalls = 0
  /\ vectorCalls = [c \in Calls |-> IdleVectorCall]
  /\ file \in Files
  /\ faqDataCache = JsonNull
  /\ loaderCalls = 0
  /\ nCalls = 0
  /\ calls = [c \in Calls |-> IdleCall]
  /\ firstDocuments = <<>>

\* ------------------------------------------------------------ runFAQAgent
\* the load without its guard
LoaderInvokedAlways(cache) == TRUE

\* if (!faqDataCache)
LoaderInvoked(cache) == IsFalsy(cache)

\* fs.readFileSync or JSON.parse throws
ReadThrows(f) == f.state # "json"

ReadError(f) == IF f.state = "missing" THEN "ENOENT" ELSE "SyntaxError"

\* faqDataCache overwritten whenever the file can be read
CacheOverwritten(cache, f) == IF ~ReadThrows(f) THEN f.value ELSE cache

\* faqDataCache after lines 107-109
CacheAfterLoad(cache, f) ==
  IF LoaderInvoked(cache) /\ ~ReadThrows(f) THEN f.value ELSE cache

\* the knowledge base a call starts from: the cached one, else the source
KbInEffect(cache, f) == IF IsFalsy(cache) THEN f.value ELSE cache

\* runFAQAgent from its entry to the await of agent.invoke (one synchronous
\* run), or to the exception thrown on the way
RunFAQAgentToAwait(c, question) ==
  /\ calls[c].pc = "idle"
  /\ \A d \in Calls : d < c => calls[d].pc # "idle"
  /\ nCalls < MaxCalls
  /\ nCalls' = nCalls + 1
  /\ loaderCalls' = IF LoaderInvoked(faqDataCache) THEN loaderCalls + 1 ELSE loaderCalls
  /\ faqDataCache' = CacheAfterLoad(faqDataCache, file)
  /\ LET data == CacheAfterLoad(faqDataCache, file)
         started == [IdleCall EXCEPT !.question = question,
                                     !.kbAtStart = KbInEffect(faqDataCache, file),
                                     !.cacheHit = ~IsFalsy(faqDataCache)]
     IN  IF LoaderInvoked(faqDataCache) /\ ReadThrows(file)
         THEN /\ calls' = [calls EXCEPT ![c] =
                   [started EXCEPT !.pc = "rejected", !.error = ReadError(file)]]
              /\ UNCHANGED firstDocuments
         ELSE IF DerivationThrows(data)
         THEN /\ calls' = [calls EXCEPT ![c] =
                   [started EXCEPT !.pc = "rejected", !.error = "TypeError",
                                   !.data = data]]
              /\ UNCHANGED firstDocuments
         ELSE LET documents == CreateDocumentsFromData(data)
                  relevantDocs == FindRelevantDocuments(question, documents)
              IN  /\ calls' = [calls EXCEPT ![c] =
                       [started EXCEPT !.pc = "awaiting", !.data = data,
                                       !.questionWords = QuestionWords(question),
                                       !.documents = documents,
                                       !.scoredDocs = ScoreDocuments(
                                          QuestionWords(question), documents),
                                       !.relevantDocs = relevantDocs,
                                       !.context = BuildContext(relevantDocs, data)]]
                  /\ firstDocuments' =
                       IF firstDocuments = <<>> THEN documents ELSE firstDocuments
  /\ UNCHANGED file

\* runFAQAgent called by a script
RunFAQAgent(c, question) ==
  /\ RunFAQAgentToAwait(c, question)
  /\ UNCHANGED <<vectorVars, serverVars>>

\* agent.invoke resolves; the answer is taken from the last message, or the
\* whole response is stringified
AgentInvokeResolves(c, response) ==
  /\ calls[c].pc = "awaiting"
  /\ calls' = [calls EXCEPT ![c] =
       [IdleCall EXCEPT !.pc = "resolved", !.cacheHit = calls[c].cacheHit,
                        !.answer = IF response = "messages" THEN "lastMessage"
                                   ELSE "stringified"]]
  /\ UNCHANGED <<file, faqDataCache, loaderCalls, nCalls, firstDocuments>>
  /\ UNCHANGED <<vectorVars, serverVars>>

\* agent.invoke rejects; the rejection leaves runFAQAgent unchanged
AgentInvokeRejects(c) ==
  /\ calls[c].pc = "awaiting"
  /\ calls' = [calls EXCEPT ![c] =
       [IdleCall EXCEPT !.pc = "rejected", !.cacheHit = calls[c].cacheHit,
                        !.error = "AgentError"]]
  /\ UNCHANGED <<file, faqDataCache, loaderCalls, nCalls, firstDocuments>>
  /\ UNCHANGED <<vectorVars, serverVars>>

\* the caller's then / catch has taken the outcome
Settle(c) ==
  /\ calls[c].pc \in {"resolved", "rejected"}
  /\ calls' = [calls EXCEPT ![c] = IdleCall]
  /\ UNCHANGED <<file, faqDataCache, loaderCalls, nCalls, firstDocuments>>
  /\ UNCHANGED <<vectorVars, serverVars>>

\* faq.json is edited, removed or damaged while the process runs
EditFile(f) ==
  /\ f # file
  /\ file' = f
  /\ UNCHANGED <<faqDataCache, loaderCalls, nCalls, calls, firstDocuments>>
  /\ UNCHANGED <<vectorVars, serverVars>>

\* ------------------------------------------------------- the vector agent
\* MemoryVectorStore.fromDocuments: the store of the documents of data,
\* the run-th store built
VectorStore(data, run) == [kind |-> "store", data |-> data, run |-> run]

\* the documents pushed by initializeVectorStore: the same templates
VectorDocuments(data) == CreateDocumentsFromData(data)

\* similaritySearch(question, 5): five documents of the store, or all when
\* it holds fewer; which ones is decided by the embeddings, here any run of
\* neighbours in the list
SimilaritySearchResults(store) ==
  LET documents == VectorDocuments(store.data)
      n == Len(documents)
      k == IF n < TopK THEN n ELSE TopK
  IN  { SubSeq(documents, first, first + k - 1) : first \in 1..(n - k + 1) }

\* the context of the vector agent: no fallback
VectorContext(relevantDocs) ==
  Join([i \in 1..Len(relevantDocs) |-> RenderDocument(relevantDocs[i])],
       <<"\n","\n","-","-","-","\n","\n">>)

\* faqDataCache.en.companyName throws a TypeError
CompanyNameThrows(data) == data.kind = "null" \/ ~data.hasEn

\* runFAQAgent of the vector agent from its entry to its first suspension:
\* initializeVectorStore returns the cached store, or loads faq.json and
\* waits for the embeddings
VectorRunFAQAgent(c, question) ==
  /\ vectorCalls[c].pc = "idle"
  /\ \A d \in Calls : d < c => vectorCalls[d].pc # "idle"
  /\ nVectorCalls < MaxCalls
  /\ nVectorCalls' = nVectorCalls + 1
  /\ LET started == [IdleVectorCall EXCEPT !.question = question,
                                           !.cacheHit = vectorStoreCache.kind # "null"]
     IN  IF vectorStoreCache.kind # "null"
         THEN /\ vectorCalls' = [vectorCalls EXCEPT ![c] =
                   [started EXCEPT !.pc = "searching",
                                   !.vectorStore = vectorStoreCache]]
              /\ UNCHANGED vectorFaqDataCache
         ELSE IF ReadThrows(file)
         THEN /\ vectorCalls' = [vectorCalls EXCEPT ![c] =
                   [started EXCEPT !.pc = "rejected", !.error = ReadError(file)]]
              /\ UNCHANGED vectorFaqDataCache
         ELSE /\ vectorFaqDataCache' = file.value
              /\ IF DerivationThrows(file.value)
                 THEN vectorCalls' = [vectorCalls EXCEPT ![c] =
                        [started EXCEPT !.pc = "rejected", !.error = "TypeError"]]
                 ELSE vectorCalls' = [vectorCalls EXCEPT ![c] =
                        [started EXCEPT !.pc = "embedding",
                                        !.faqData = file.value]]
  /\ UNCHANGED <<file, vectorStoreCache, embedRuns>>
  /\ UNCHANGED <<keywordVars, serverVars>>

\* fromDocuments resolves: the store is cached and returned, and runFAQAgent
\* goes on to similaritySearch
EmbeddingResolves(c) ==
  /\ vectorCalls[c].pc = "embedding"
  /\ embedRuns' = embedRuns + 1
  /\ vectorStoreCache' = VectorStore(vectorCalls[c].faqData, embedRuns + 1)
  /\ vectorCalls' = [vectorCalls EXCEPT ![c] =
       [@ EXCEPT !.pc = "searching",
                 !.vectorStore = VectorStore(vectorCalls[c].faqData, embedRuns + 1)]]
  /\ UNCHANGED <<file, vectorFaqDataCache, nVectorCalls>>
  /\ UNCHANGED <<keywordVars, serverVars>>

\* fromDocuments rejects: nothing is cached
EmbeddingRejects(c) ==
  /\ vectorCalls[c].pc = "embedding"
  /\ vectorCalls' = [vectorCalls EXCEPT ![c] =
       [IdleVectorCall EXCEPT !.pc = "rejected", !.error = "EmbeddingError"]]
  /\ UNCHANGED <<file, vectorStoreCache, vectorFaqDataCache, embedRuns, nVectorCalls>>
  /\ UNCHANGED <<keywordVars, serverVars>>

\* similaritySearch resolves: the context and the system prompt are built
\* and agent.invoke is awaited
SimilaritySearchResolves(c) ==
  /\ vectorCalls[c].pc = "searching"
  /\ \E relevantDocs \in SimilaritySearchResults(vectorCalls[c].vectorStore) :
        IF CompanyNameThrows(vectorFaqDataCache)
        THEN vectorCalls' = [vectorCalls EXCEPT ![c] =
               [IdleVectorCall EXCEPT !.pc = "rejected", !.error = "TypeError",
                                      !.cacheHit = vectorCalls[c].cacheHit]]
        ELSE vectorCalls' = [vectorCalls EXCEPT ![c] =
               [@ EXCEPT !.pc = "invoking",
                         !.context = VectorContext(relevantDocs),
                         !.companyName = Interpolate(vectorFaqDataCache, "companyName",
                                                     vectorFaqDataCache.companyName)]]
  /\ UNCHANGED <<file, vectorStoreCache, vectorFaqDataCache, embedRuns, nVectorCalls>>
  /\ UNCHANGED <<keywordVars, serverVars>>

\* similaritySearch rejects
SimilaritySearchRejects(c) ==
  /\ vectorCalls[c].pc = "searching"
  /\ vectorCalls' = [vectorCalls EXCEPT ![c] =
       [IdleVectorCall EXCEPT !.pc = "rejected", !.error = "SearchError",
                              !.cacheHit = vectorCalls[c].cacheHit]]
  /\ UNCHANGED <<file, vectorStoreCache, vectorFaqDataCache, embedRuns, nVectorCalls>>
  /\ UNCHANGED <<keywordVars, serverVars>>

\* agent.invoke of the vector agent resolves
VectorInvokeResolves(c, response) ==
  /\ vectorCalls[c].pc = "invoking"
  /\ vectorCalls' = [vectorCalls EXCEPT ![c] =
       [IdleVectorCall EXCEPT !.pc = "resolved",
                              !.cacheHit = vectorCalls[c].cacheHit,
                              !.answer = IF response = "messages" THEN "lastMessage"
                                         ELSE "stringified"]]
  /\ UNCHANGED <<file, vectorStoreCache, vectorFaqDataCache, embedRuns, nVectorCalls>>
  /\ UNCHANGED <<keywordVars, serverVars>>

\* agent.invoke of the vector agent rejects
VectorInvokeRejects(c) ==
  /\ vectorCalls[c].pc = "invoking"
  /\ vectorCalls' = [vectorCalls EXCEPT ![c] =
       [IdleVectorCall EXCEPT !.pc = "rejected", !.error = "AgentError",
                              !.cacheHit = vectorCalls[c].cacheHit]]
  /\ UNCHANGED <<file, vectorStoreCache, vectorFaqDataCache, embedRuns, nVectorCalls>>
  /\ UNCHANGED <<keywordVars, serverVars>>

\* the caller of the vector agent has taken the outcome
VectorSettle(c) ==
  /\ vectorCalls[c].pc \in {"resolved", "rejected"}
  /\ vectorCalls' = [vectorCalls EXCEPT ![c] = IdleVectorCall]
  /\ UNCHANGED <<file, vectorStoreCache, vectorFaqDataCache, embedRuns, nVectorCalls>>
  /\ UNCHANGED <<keywordVars, serverVars>>

\* --------------------------------------------------------------- server
\* the values a JSON body, a form or a query string gives to the question
Null == [kind |-> "null", truthy |-> FALSE, text |-> <<>>]

NumberZero == [kind |-> "number", truthy |-> FALSE, text |-> <<>>]

NumberFive == [kind |-> "number", truthy |-> TRUE, text |-> <<>>]

ArrayOfStrings == [kind |-> "array", truthy |-> TRUE, text |-> <<>>]

String(text) == [kind |-> "string", truthy |-> text # <<>>, text |-> text]

Texts == { <<>>, <<" ","\t">>, <<" ","A","n","a"," ","r","o","l","e",":","\n">>, <<"t","h","e"," ","?">> }

\* what express.json and express.urlencoded can put into req.body.question
BodyValues ==
  {Undefined, Null, NumberZero, NumberFive, ArrayOfStrings}
    \cup { String(t) : t \in Texts }

\* what the query parser can put into req.query.q
QueryValues == {Undefined, ArrayOfStrings} \cup { String(t) : t \in Texts }

RECURSIVE TrimStart(_)
TrimStart(s) ==
  IF s # <<>> /\ Head(s) \in WhitespaceChars THEN TrimStart(Tail(s)) ELSE s

RECURSIVE TrimEnd(_)
TrimEnd(s) ==
  IF s # <<>> /\ s[Len(s)] \in WhitespaceChars
  THEN TrimEnd(SubSeq(s, 1, Len(s) - 1)) ELSE s

\* String.prototype.trim
Trim(s) == TrimEnd(TrimStart(s))

\* !question || typeof question !== "string" || question.trim().length === 0
IsInvalidQuestion(question) ==
  \/ ~question.truthy
  \/ question.kind # "string"
  \/ Len(Trim(question.text)) = 0

\* req.body.question?.trim() throws: the value is neither null nor
\* undefined and has no method trim
OptionalTrimThrows(question) ==
  question.kind \notin {"undefined", "null", "string"}

\* !question || question.length === 0, of the trimmed question
IsEmptyTrimmed(question) ==
  \/ question.kind \in {"undefined", "null"}
  \/ Len(Trim(question.text)) = 0

\* a request can be taken into slot c
CanReceive(c) ==
  /\ http[c].pc = "idle"
  /\ \A d \in Calls : d < c => http[d].pc # "idle"
  /\ nRequests < MaxCalls

\* the response of the handler of route to input without a call of the agent
RespondAtOnce(c, route, input, status, body, message) ==
  /\ http' = [http EXCEPT ![c] =
       [pc |-> "responded", route |-> route, input |-> input,
        agentCalled |-> FALSE, responses |-> 1, status |-> status,
        body |-> body, message |-> message]]
  /\ UNCHANGED <<file, keywordVars>>

\* the handler calls runFAQAgent(question) and awaits it
CallAgent(c, route, input, question) ==
  /\ RunFAQAgentToAwait(c, question)
  /\ http' = [http EXCEPT ![c] =
       [IdleRequest EXCEPT !.pc = "pending", !.route = route, !.input = input,
                           !.agentCalled = TRUE]]

\* app.post("/api/ask") up to its response or its await
PostApiAsk(c, question) ==
  /\ CanReceive(c)
  /\ nRequests' = nRequests + 1
  /\ IF IsInvalidQuestion(question)
     THEN RespondAtOnce(c, "POST /api/ask", question, 400, "json", "Invalid request")
     ELSE CallAgent(c, "POST /api/ask", question, Trim(question.text))
  /\ UNCHANGED vectorVars

\* app.get("/api/ask") up to its response or its await
GetApiAsk(c, q) ==
  /\ CanReceive(c)
  /\ nRequests' = nRequests + 1
  /\ IF IsInvalidQuestion(q)
     THEN RespondAtOnce(c, "GET /api/ask", q, 400, "json", "Invalid request")
     ELSE CallAgent(c, "GET /api/ask", q, Trim(q.text))
  /\ UNCHANGED vectorVars

\* app.post("/ask") up to its response or its await
PostAsk(c, question) ==
  /\ CanReceive(c)
  /\ nRequests' = nRequests + 1
  /\ IF OptionalTrimThrows(question)
     THEN RespondAtOnce(c, "POST /ask", question, 500, "html", "TypeError")
     ELSE IF IsEmptyTrimmed(question)
     THEN RespondAtOnce(c, "POST /ask", question, 400, "html",
                        "Please enter a question.")
     ELSE CallAgent(c, "POST /ask", question, Trim(question.text))
  /\ UNCHANGED vectorVars

\* the await of runFAQAgent is over: the answer is sent, or the catch block
\* sends the message of the error
Respond(c) ==
  /\ http[c].pc = "pending"
  /\ calls[c].pc \in {"resolved", "rejected"}
  /\ http' = [http EXCEPT ![c] =
       [@ EXCEPT !.pc = "responded",
                 !.responses = @ + 1,
                 !.status = IF calls[c].pc = "resolved" THEN 200 ELSE 500,
                 !.body = IF http[c].route = "POST /ask" THEN "html" ELSE "json",
                 !.message = IF calls[c].pc = "resolved" THEN calls[c].answer
                             ELSE calls[c].error]]
  /\ calls' = [calls EXCEPT ![c] = IdleCall]
  /\ UNCHANGED <<file, faqDataCache, loaderCalls, nCalls, firstDocuments>>
  /\ UNCHANGED <<vectorVars, nRequests>>

\* the response has left
CloseRequest(c) ==
  /\ http[c].pc = "responded"
  /\ http' = [http EXCEPT ![c] = IdleRequest]
  /\ UNCHANGED <<file, keywordVars, vectorVars, nRequests>>

\* ---------------------------------------------------------- specifications
\* one process serving concurrently dispatched calls
Next ==
  \/ \E c \in Calls, q \in ConcurrentQuestions : RunFAQAgent(c, q)
  \/ \E c \in Calls, r \in Responses : AgentInvokeResolves(c, r)
  \/ \E c \in Calls : AgentInvokeRejects(c)
  \/ \E c \in Calls : Settle(c)
  \/ \E f \in Files : EditFile(f)

Spec == Init /\ [][Next]_vars

\* one process asked one question after the other, any question
NextSelect ==
  \/ \E q \in Questions : RunFAQAgent(1, q)
  \/ \E r \in Responses : AgentInvokeResolves(1, r)
  \/ AgentInvokeRejects(1)
  \/ Settle(1)

SpecSelect == Init /\ [][NextSelect]_vars

\* one process asked variants of a question while faq.json stays as it is
NextVariants ==
  \/ \E c \in Calls, q \in VariantQuestions : RunFAQAgent(c, q)
  \/ \E c \in Calls, r \in Responses : AgentInvokeResolves(c, r)
  \/ \E c \in Calls : AgentInvokeRejects(c)
  \/ \E c \in Calls : Settle(c)

SpecVariants == Init /\ [][NextVariants]_vars

\* one process serving concurrently dispatched calls of the vector agent
NextVector ==
  \/ \E c \in Calls, q \in ConcurrentQuestions : VectorRunFAQAgent(c, q)
  \/ \E c \in Calls : EmbeddingResolves(c)
  \/ \E c \in Calls : EmbeddingRejects(c)
  \/ \E c \in Calls : SimilaritySearchResolves(c)
  \/ \E c \in Calls : SimilaritySearchRejects(c)
  \/ \E c \in Calls, r \in Responses : VectorInvokeResolves(c, r)
  \/ \E c \in Calls : VectorInvokeRejects(c)
  \/ \E c \in Calls : VectorSettle(c)
  \/ \E f \in Files : EditFile(f)

SpecVector == Init /\ [][NextVector]_vars

\* the server process: requests arrive while others are being answered
NextServer ==
  \/ \E c \in Calls, question \in BodyValues : PostApiAsk(c, question)
  \/ \E c \in Calls, q \in QueryValues : GetApiAsk(c, q)
  \/ \E c \in Calls, question \in BodyValues : PostAsk(c, question)
  \/ \E c \in Calls, r \in Responses : AgentInvokeResolves(c, r)
  \/ \E c \in Calls : AgentInvokeRejects(c)
  \/ \E c \in Calls : Respond(c)
  \/ \E c \in Calls : CloseRequest(c)

SpecServer == Init /\ [][NextServer]_vars

\* ------------------------------------------------------------- properties
\* the calls that have built their context and wait for the language model
Awaiting == { c \in Calls : calls[c].pc = "awaiting" }

\* the question words of the call, as the tokenizer is described: lower-case
\* pieces between whitespace, longer than two characters, no stop word
WordsOf(c) == QuestionWords(calls[c].question)

\* the number of places of words whose word occurs in text
RECURSIVE OccurringWords(_, _)
OccurringWords(words, text) ==
  IF words = <<>> THEN 0
  ELSE (IF Includes(text, Head(words)) THEN 1 ELSE 0)
         + OccurringWords(Tail(words), text)

\* C1: whatever the question, a call that gets as far as building its
\* context has selected at least one unit of context, the matching documents
\* or else the one fallback summary, and the context is not empty
SelectedUnits(c) ==
  IF calls[c].relevantDocs # <<>> THEN Len(calls[c].relevantDocs)
  ELSE IF calls[c].context = FallbackContext(calls[c].data) THEN 1 ELSE 0

C1_SelectionNonEmpty ==
  \A c \in Awaiting : SelectedUnits(c) >= 1 /\ calls[c].context # <<>>

\* a question of stop words and punctuation only went through the fallback
C1_Witness ==
  \E c \in Awaiting :
     /\ calls[c].question = <<"t","h","e"," ","?">>
     /\ calls[c].documents # <<>>
     /\ calls[c].relevantDocs = <<>>
     /\ calls[c].context # <<>>

\* C2: at most five documents are selected and put into the context
C2_AtMostFive ==
  \A c \in Awaiting :
     /\ Len(calls[c].relevantDocs) <= 5
     /\ Len(ContextBlocks(calls[c].relevantDocs, calls[c].data)) <= 5

\* more than five documents matched and five were selected
C2_Witness ==
  \E c \in Awaiting :
     /\ Cardinality({ i \in 1..Len(calls[c].scoredDocs) :
                        calls[c].scoredDocs[i].score > 0 }) > 5
     /\ Len(calls[c].relevantDocs) = 5

\* C3: the context is the fallback made of the company name and the mission
\* statement exactly when no document scores above 0
NoDocumentMatches(c) ==
  \A i \in 1..Len(calls[c].documents) :
     OccurringWords(WordsOf(c), ToLowerCase(calls[c].documents[i].content)) = 0

C3_FallbackIffNoMatch ==
  \A c \in Awaiting :
     NoDocumentMatches(c) <=>
       calls[c].context =
         <<"C","o","m","p","a","n","y",":"," ">> \o calls[c].data.companyName \o <<"\n">>
           \o calls[c].data.missionStatement

\* the fallback was used for a question whose only word occurs nowhere
C3_Witness ==
  \E c \in Awaiting :
     /\ calls[c].question = <<"?","?","?">>
     /\ WordsOf(c) = <<<<"?","?","?">>>>
     /\ calls[c].context = <<"C","o","m","p","a","n","y",":"," ","A","c","m","e","\n","W","e"," ","b","u","i","l","d"," ","A","P","I","s">>

\* a document as derived, without the score of one call
Unscored(doc) == [content |-> doc.content, type |-> doc.type, meta |-> doc.meta]

RECURSIVE IsSubsequence(_, _)
\* a is b with some elements left out
IsSubsequence(a, b) ==
  IF a = <<>> THEN TRUE
  ELSE IF b = <<>> THEN FALSE
  ELSE IF Head(a) = Head(b) THEN IsSubsequence(Tail(a), Tail(b))
  ELSE IsSubsequence(a, Tail(b))

\* the score the claims speak of for a derived document of call c
MatchCount(c, doc) == OccurringWords(WordsOf(c), ToLowerCase(doc.content))

\* C4: the selected documents are in descending order of score, and the
\* selected documents of one score are in the order of the derived list
C4_SortedDescendingStable ==
  \A c \in Awaiting :
     LET r == calls[c].relevantDocs
     IN  /\ \A i \in 1..(Len(r) - 1) : r[i].score >= r[i + 1].score
         /\ \A s \in 1..Len(WordsOf(c)) :
              IsSubsequence(
                [i \in 1..Len(SelectSeq(r, LAMBDA d : d.score = s)) |->
                   Unscored(SelectSeq(r, LAMBDA d : d.score = s)[i])],
                SelectSeq(calls[c].documents, LAMBDA d : MatchCount(c, d) = s))

\* sorting moved a later document to the front, and documents tie
C4_Witness ==
  \E c \in Awaiting :
     LET r == calls[c].relevantDocs
     IN  /\ Len(r) >= 3
         /\ r[1].score > r[Len(r)].score
         /\ \E i \in 1..(Len(r) - 1) : r[i].score = r[i + 1].score
         /\ MatchCount(c, calls[c].documents[1]) > 0
         /\ Unscored(r[1]) # calls[c].documents[1]

\* C5 as claimed: the score is the number of distinct question words that
\* occur in the lower-cased content, a repeated word counting once
C5_ScoreCountsDistinctWords ==
  \A c \in Awaiting :
     \A i \in 1..Len(calls[c].scoredDocs) :
        LET terms == { WordsOf(c)[k] : k \in 1..Len(WordsOf(c)) }
            doc == calls[c].scoredDocs[i]
        IN  /\ doc.score =
                 Cardinality({ w \in terms : Includes(ToLowerCase(doc.content), w) })
            /\ 0 <= doc.score
            /\ doc.score <= Cardinality(terms)

\* C5 amended: the score is the number of question words, each occurrence
\* of a repeated word counted, that occur in the lower-cased content; it
\* lies between 0 and the number of question words
C5_ScoreCountsWordOccurrences ==
  \A c \in Awaiting :
     \A i \in 1..Len(calls[c].scoredDocs) :
        LET doc == calls[c].scoredDocs[i]
        IN  /\ doc.score = OccurringWords(WordsOf(c), ToLowerCase(doc.content))
            /\ 0 <= doc.score
            /\ doc.score <= Len(WordsOf(c))

\* a question that repeats a word, scored against a document containing it
C5_Witness ==
  \E c \in Awaiting :
     /\ calls[c].question = <<"A","n","a"," ","A","n","a">>
     /\ \E i \in 1..Len(calls[c].scoredDocs) : calls[c].scoredDocs[i].score = 2

\* C10: derivation yields the company document, one document per employee
\* in order, one per mission area in order, and the contact document last;
\* every content is non-empty and every type one of the four
C10_DerivationOrder ==
  \A c \in Awaiting :
     LET docs == calls[c].documents
         ne == Len(calls[c].data.employees)
         nm == Len(calls[c].data.mission)
     IN  /\ Len(docs) = 1 + ne + nm + 1
         /\ docs[1].type = "company_info"
         /\ \A i \in 1..ne :
               /\ docs[1 + i].type = "employee"
               /\ docs[1 + i].meta = calls[c].data.employees[i].name
         /\ \A j \in 1..nm :
               /\ docs[1 + ne + j].type = "mission"
               /\ docs[1 + ne + j].meta = calls[c].data.mission[j].title
         /\ docs[Len(docs)].type = "contact"
         /\ \A i \in 1..Len(docs) :
               /\ docs[i].content # <<>>
               /\ docs[i].type \in {"company_info", "employee", "mission", "contact"}

\* the ten documents of a knowledge base with six employees and two missions
C10_Witness ==
  \E c \in Awaiting :
     /\ calls[c].data = KBGlobex
     /\ Len(calls[c].documents) = 10
     /\ calls[c].documents[8].type = "mission"

\* the calls that were made and whose outcome nobody has taken yet
InFlight == { c \in Calls : calls[c].pc # "idle" }

\* C6 as claimed: once a call was made the loader has been invoked exactly
\* once, and every call works on the documents of the first call
C6_LoaderInvokedExactlyOnce ==
  /\ nCalls >= 1 => loaderCalls = 1
  /\ \A c \in Awaiting : calls[c].documents = firstDocuments

\* C6 amended: the loader is invoked by exactly the calls that find the
\* cache empty; once a loaded value is cached no call invokes the loader or
\* replaces the cache; every call that derives documents derives the
\* documents of the first such call
C6_LoaderInvokedWhileCacheEmpty ==
  [][ /\ nCalls' # nCalls =>
           loaderCalls' = (IF IsFalsy(faqDataCache) THEN loaderCalls + 1
                           ELSE loaderCalls)
      /\ nCalls' = nCalls => loaderCalls' = loaderCalls
      /\ ~IsFalsy(faqDataCache) => faqDataCache' = faqDataCache
      /\ \A c \in Calls :
            calls'[c].pc = "awaiting" => calls'[c].documents = firstDocuments'
    ]_vars

\* two calls, one load, the file edited since, the cached documents used
C6_Witness ==
  /\ nCalls = 2
  /\ loaderCalls = 1
  /\ faqDataCache = KBAcme
  /\ file = FileOf(KBGlobex)
  /\ \A c \in Calls : /\ calls[c].pc = "awaiting"
                      /\ calls[c].documents = CreateDocumentsFromData(KBAcme)

C8_NoPartialKnowledgeBaseCached ==
  /\ faqDataCache \in WellFormedValues \cup {JsonNull}
  /\ \A c \in InFlight :
        (~calls[c].cacheHit /\ calls[c].kbAtStart \notin WellFormedValues) =>
           /\ calls[c].pc = "rejected"
           /\ calls[c].error \in {"ENOENT", "SyntaxError"}

OccursIn(word, text) ==
  \E i \in 0..(Len(text) - Len(word)) :
     \A k \in 1..Len(word) : text[i + k] = word[k]

\* the question of call c in lower case
LowerQuestion(c) ==
  [i \in 1..Len(calls[c].question) |->
     IF \E u \in 1..26 : UpperChars[u] = calls[c].question[i]
     THEN LowerChars[CHOOSE u \in 1..26 : UpperChars[u] = calls[c].question[i]]
     ELSE calls[c].question[i]]

\* C11: if every question word found in document B is found in document A,
\* the score of A is at least the score of B
C11_ScoreMonotone ==
  \A c \in Awaiting :
     \A a, b \in 1..Len(calls[c].scoredDocs) :
        LET docA == calls[c].scoredDocs[a]
            docB == calls[c].scoredDocs[b]
        IN  (\A k \in 1..Len(calls[c].questionWords) :
                OccursIn(calls[c].questionWords[k], ToLowerCase(docB.content))
                  => OccursIn(calls[c].questionWords[k], ToLowerCase(docA.content)))
            => docA.score >= docB.score

\* document A contains both question words, document B one of them
C11_Witness ==
  \E c \in Awaiting :
     \E a, b \in 1..Len(calls[c].scoredDocs) :
        /\ Len(calls[c].questionWords) = 2
        /\ calls[c].questionWords[1] # calls[c].questionWords[2]
        /\ calls[c].scoredDocs[a].score = 2
        /\ calls[c].scoredDocs[b].score = 1

\* the places of the lower-cased question where a token starts
TokenStarts(c) ==
  { i \in 1..Len(LowerQuestion(c)) :
      /\ LowerQuestion(c)[i] \notin {" ", "\t", "\n", "\r", "\f"}
      /\ (i = 1 \/ LowerQuestion(c)[i - 1] \in {" ", "\t", "\n", "\r", "\f"}) }

\* the token that starts at place i: up to the next whitespace or the end
TokenAt(c, i) ==
  LET ends == { j \in i..Len(LowerQuestion(c)) :
                  j = Len(LowerQuestion(c))
                    \/ LowerQuestion(c)[j + 1] \in {" ", "\t", "\n", "\r", "\f"} }
      last == CHOOSE j \in ends : \A j2 \in ends : j <= j2
  IN  SubSeq(LowerQuestion(c), i, last)

ListedStopWords ==
  { <<"t","h","e">>, <<"a">>, <<"a","n">>, <<"i","s">>, <<"a","r","e">>, <<"w","h","a","t">>, <<"w","h","o">>,
    <<"w","h","e","r","e">>, <<"w","h","e","n">>, <<"w","h","y">>, <<"h","o","w">>, <<"d","o","e","s">>, <<"d","o">>,
    <<"c","a","n">>, <<"c","o","u","l","d">> }

\* the starts of the tokens that are kept
KeptStarts(c) ==
  { i \in TokenStarts(c) :
      Len(TokenAt(c, i)) > 2 /\ TokenAt(c, i) \notin ListedStopWords }

\* C12: the extracted words are, in order, exactly the tokens of the
\* lower-cased question longer than two characters that are no stop words;
\* none is short, a stop word or has an upper-case letter
C12_TermsAreFilteredTokens ==
  \A c \in Awaiting :
     LET words == calls[c].questionWords
     IN  /\ Len(words) = Cardinality(KeptStarts(c))
         /\ \A i \in KeptStarts(c) :
               words[Cardinality({ j \in KeptStarts(c) : j < i }) + 1] = TokenAt(c, i)
         /\ \A k \in 1..Len(words) :
               /\ Len(words[k]) > 2
               /\ words[k] \notin ListedStopWords
               /\ \A p \in 1..Len(words[k]) :
                     \A u \in 1..26 : words[k][p] # UpperChars[u]

\* an upper-case name kept in lower case; a stop word and a two-letter
\* word dropped
C12_Witness ==
  \E c \in Awaiting :
     /\ calls[c].question \in { <<"t","h","e"," ","A","n","a">>, <<"A","I"," ","A","n","a">> }
     /\ calls[c].questionWords = <<<<"a","n","a">>>>

PunctuationChars == {"?", "!", ".", ","}

\* a token that is a stop word or nothing, followed by punctuation only
IsStopWordOrPunctuation(token) ==
  \E n \in 0..Len(token) :
     /\ (n = 0 \/ SubSeq(token, 1, n) \in ListedStopWords)
     /\ \A p \in (n + 1)..Len(token) : token[p] \in PunctuationChars

\* C13 as claimed: a question of stop words and punctuation only has no
\* extracted word and gets the fallback context
C13_StopWordsAndPunctuationGiveNoTerms ==
  \A c \in Awaiting :
     (\A i \in TokenStarts(c) : IsStopWordOrPunctuation(TokenAt(c, i)))
       => /\ calls[c].questionWords = <<>>
          /\ calls[c].context = FallbackContext(calls[c].data)

\* C13 amended: a question has no extracted word exactly when each of its
\* tokens is a stop word or at most two characters long, and then it gets
\* the fallback context; any other token, punctuation included, is a word
C13_StopWordsAndShortTokensGiveNoTerms ==
  \A c \in Awaiting :
     /\ (calls[c].questionWords = <<>>)
          <=> (\A i \in TokenStarts(c) :
                  TokenAt(c, i) \in ListedStopWords \/ Len(TokenAt(c, i)) <= 2)
     /\ (calls[c].questionWords = <<>>)
          => /\ calls[c].relevantDocs = <<>>
             /\ calls[c].context = FallbackContext(calls[c].data)

\* a stop word and a question mark apart, answered with the fallback
C13_Witness ==
  \E c \in Awaiting :
     /\ calls[c].question = <<"t","h","e"," ","?">>
     /\ calls[c].questionWords = <<>>
     /\ calls[c].context = <<"C","o","m","p","a","n","y",":"," ","G","l","o","b","e","x","\n","S","h","i","p"," ","i","t">>

\* some question word of call c occurs in the lower-cased content of doc
ContainsSomeWord(c, doc) ==
  \E k \in 1..Len(calls[c].questionWords) :
     OccursIn(calls[c].questionWords[k], ToLowerCase(doc.content))

\* the places of the derived documents of call c that contain a question word
MatchingPlaces(c) ==
  { i \in 1..Len(calls[c].documents) : ContainsSomeWord(c, calls[c].documents[i]) }

\* C16: every selected document has a score above 0 and contains a question
\* word; when one document alone contains a question word, the selection is
\* exactly that document
C16_SelectedDocumentsMatch ==
  \A c \in Awaiting :
     /\ \A i \in 1..Len(calls[c].relevantDocs) :
           /\ calls[c].relevantDocs[i].score > 0
           /\ ContainsSomeWord(c, calls[c].relevantDocs[i])
     /\ \A i \in MatchingPlaces(c) :
           MatchingPlaces(c) = {i}
             => /\ Len(calls[c].relevantDocs) = 1
                /\ Unscored(calls[c].relevantDocs[1]) = calls[c].documents[i]

\* the name of an employee is the only question word, and it occurs in the
\* document of that employee only
C16_Witness ==
  \E c \in Awaiting :
     /\ calls[c].questionWords = <<<<"a","n","a">>>>
     /\ Len(calls[c].documents) > 1
     /\ Len(calls[c].relevantDocs) = 1
     /\ calls[c].relevantDocs[1].type = "employee"
     /\ calls[c].relevantDocs[1].score = 1

\* the number of elements of docs whose score is above s
ScoredAbove(docs, s) ==
  Cardinality({ i \in 1..Len(docs) : docs[i].score > s })

\* C17: of m documents that contain a question word, min(m, 5) are selected,
\* and every document that scores above a selected one is selected too
C17_SelectsTopOfMatching ==
  \A c \in Awaiting :
     LET m == Cardinality(MatchingPlaces(c))
         r == calls[c].relevantDocs
     IN  /\ Len(r) = (IF m <= 5 THEN m ELSE 5)
         /\ \A i \in 1..Len(r) :
               ScoredAbove(r, r[i].score) = ScoredAbove(calls[c].scoredDocs, r[i].score)
         /\ \A i \in 1..Len(r) :
               \E j \in 1..Len(calls[c].scoredDocs) : calls[c].scoredDocs[j] = r[i]

\* more than five documents match, and one that scores below a selected
\* document is left out
C17_Witness ==
  \E c \in Awaiting :
     LET r == calls[c].relevantDocs
     IN  /\ Cardinality(MatchingPlaces(c)) > 5
         /\ Len(r) = 5
         /\ r[1].score > r[5].score
         /\ \E j \in 1..Len(calls[c].scoredDocs) :
               /\ calls[c].scoredDocs[j].score > 0
               /\ calls[c].scoredDocs[j].score < r[1].score
               /\ \A i \in 1..5 : r[i] # calls[c].scoredDocs[j]

\* the tokens of the lower-cased question of call c
TokensOf(c) == { TokenAt(c, i) : i \in TokenStarts(c) }

\* C18 as claimed: a question with the word "AI" gives a score above 0 to
\* every document whose content contains "ai", inside a longer word or not
C18_ShortWordMatchesInsideWords ==
  \A c \in Awaiting :
     <<"a","i">> \in TokensOf(c)
       => \A i \in 1..Len(calls[c].scoredDocs) :
             OccursIn(<<"a","i">>, ToLowerCase(calls[c].scoredDocs[i].content))
               => calls[c].scoredDocs[i].score > 0

\* C18 amended: a document scores above 0 exactly when its content contains,
\* inside a longer word or not, a token of the question that is longer than
\* two characters and no stop word; the word "AI" gives no score
C18_LongWordsMatchInsideWords ==
  \A c \in Awaiting :
     \A i \in 1..Len(calls[c].scoredDocs) :
        calls[c].scoredDocs[i].score > 0
          <=> \E t \in TokensOf(c) :
                 /\ Len(t) > 2
                 /\ t \notin ListedStopWords
                 /\ OccursIn(t, ToLowerCase(calls[c].scoredDocs[i].content))

\* the question "AI Ana": the document of Joana scores by "ana" inside the
\* name, a document with "ai" and without "ana" does not score
C18_Witness ==
  \E c \in Awaiting :
     /\ calls[c].question = <<"A","I"," ","A","n","a">>
     /\ \E i \in 1..Len(calls[c].scoredDocs) :
           /\ OccursIn(<<"j","o","a","n","a">>, ToLowerCase(calls[c].scoredDocs[i].content))
           /\ calls[c].scoredDocs[i].score = 1
     /\ \E i \in 1..Len(calls[c].scoredDocs) :
           /\ OccursIn(<<"a","i">>, ToLowerCase(calls[c].scoredDocs[i].content))
           /\ calls[c].scoredDocs[i].score = 0

\* the calls that ran their retrieval in this step
StartedNow == { c \in Calls : calls[c].pc = "idle" /\ calls'[c].pc # "idle" }

\* C14 as claimed: a question asked after faq.json was edited is answered
\* from the data the file holds when the question is asked
C14_QuestionsUseUpdatedData ==
  [][ \A c \in StartedNow :
         (file.state = "json" /\ calls'[c].pc = "awaiting")
           => /\ calls'[c].data = file.value
              /\ calls'[c].documents = CreateDocumentsFromData(file.value)
    ]_vars

\* C19: a retrieval call that finds the knowledge base cached leaves the
\* cache as it is and derives the same documents as the calls in flight; the
\* derived documents carry no score, the scored copies carry their content,
\* type and order, and the selected documents are scored copies
C19_RetrievalLeavesCacheAndDocuments ==
  [][ \A c \in StartedNow :
         ~IsFalsy(faqDataCache)
           => /\ faqDataCache' = faqDataCache
              /\ \A d \in Calls \ {c} : calls'[d] = calls[d]
              /\ calls'[c].pc = "awaiting"
                   => /\ \A d \in Awaiting :
                            calls[d].kbAtStart = faqDataCache
                              => calls'[c].documents = calls[d].documents
                      /\ \A i \in 1..Len(calls'[c].documents) :
                            DOMAIN calls'[c].documents[i] = {"content", "type", "meta"}
                      /\ Len(calls'[c].scoredDocs) = Len(calls'[c].documents)
                      /\ \A i \in 1..Len(calls'[c].documents) :
                            /\ calls'[c].scoredDocs[i].content = calls'[c].documents[i].content
                            /\ calls'[c].scoredDocs[i].type = calls'[c].documents[i].type
                            /\ calls'[c].scoredDocs[i].meta = calls'[c].documents[i].meta
                      /\ \A i \in 1..Len(calls'[c].relevantDocs) :
                            \E j \in 1..Len(calls'[c].scoredDocs) :
                               calls'[c].relevantDocs[i] = calls'[c].scoredDocs[j]
    ]_vars

\* a second call selected scored documents from the cached knowledge base
\* while the first is in flight with the same unscored documents
C19_Witness ==
  \E c1, c2 \in Awaiting :
     /\ c1 # c2
     /\ ~calls[c1].cacheHit
     /\ calls[c2].cacheHit
     /\ faqDataCache = KBGlobex
     /\ calls[c2].kbAtStart = KBGlobex
     /\ Len(calls[c2].relevantDocs) = 5
     /\ calls[c2].relevantDocs[1].score = 2
     /\ calls[c1].documents = calls[c2].documents

\* the vector calls that hold a vector store to search
HoldingStore == { c \in Calls : vectorCalls[c].pc \in {"searching", "invoking"} }

\* C15 as claimed: the vector store is built and cached at most once, and
\* every call past initializeVectorStore works on the cached store
C15_VectorStoreBuiltOnce ==
  /\ embedRuns <= 1
  /\ \A c \in HoldingStore : vectorCalls[c].vectorStore = vectorStoreCache

\* the requests that were answered
Responded == { c \in Calls : http[c].pc = "responded" }

\* the question of the request is missing, not a string, or blank
MissingOrBlank(input) ==
  \/ input.kind # "string"
  \/ \A p \in 1..Len(input.text) : input.text[p] \in {" ", "\t", "\n", "\r", "\f"}

\* C20 as claimed: every request gets one response; 400 and no call of the
\* agent when the question is missing, not a string or blank; otherwise 200
\* with the answer or 500 with the error message of the agent; the agent is
\* never called with an empty or blank question
C20_OneResponsePerRequest ==
  /\ \A c \in Calls : http[c].responses <= 1
  /\ \A c \in Responded :
        /\ http[c].responses = 1
        /\ MissingOrBlank(http[c].input)
             <=> (http[c].status = 400 /\ ~http[c].agentCalled)
        /\ ~MissingOrBlank(http[c].input)
             => /\ http[c].agentCalled
                /\ http[c].status \in {200, 500}
                /\ http[c].status = 200
                     => http[c].message \in {"lastMessage", "stringified"}
                /\ http[c].status = 500
                     => http[c].message \in {"ENOENT", "SyntaxError", "TypeError",
                                             "AgentError"}
  /\ \A c \in Calls :
        http[c].pc = "pending" /\ calls[c].pc = "awaiting"
          => /\ calls[c].question # <<>>
             /\ \E p \in 1..Len(calls[c].question) :
                   calls[c].question[p] \notin {" ", "\t", "\n", "\r", "\f"}

\* the tokens of the lower-cased question of c, each with its place
PlacedTokens(c) == { <<i, TokenAt(c, i)>> : i \in TokenStarts(c) }

\* the questions of c1 and c2 differ at most in letter case, in whitespace
\* and in the order of their words: each token occurs as often in both
SameWordsAsked(c1, c2) ==
  LET tokens1 == PlacedTokens(c1)
      tokens2 == PlacedTokens(c2)
  IN  \A token \in { p[2] : p \in tokens1 \cup tokens2 } :
         Cardinality({ p \in tokens1 : p[2] = token })
           = Cardinality({ p \in tokens2 : p[2] = token })

\* C21: on the same document list, two questions that differ in letter
\* case, in leading, trailing or repeated whitespace and in the order of
\* their words select the same documents with the same scores in the same
\* order
C21_SelectionInvariantUnderVariation ==
  \A c1, c2 \in Awaiting :
     (/\ c1 < c2
      /\ calls[c1].documents = calls[c2].documents
      /\ SameWordsAsked(c1, c2))
       => calls[c1].relevantDocs = calls[c2].relevantDocs

\* a question and its variant in case, whitespace and word order, asked of
\* the same documents, with several documents selected at different scores
C21_Witness ==
  \E c1, c2 \in Awaiting :
     /\ calls[c1].question = <<"A","n","a"," ","r","o","l","e",":">>
     /\ calls[c2].question = <<"\t","R","O","L","E",":"," "," ","a","n","a"," ">>
     /\ calls[c1].documents = calls[c2].documents
     /\ Len(calls[c1].relevantDocs) = 5
     /\ calls[c1].relevantDocs[1].score > calls[c1].relevantDocs[5].score
     /\ calls[c2].relevantDocs = calls[c1].relevantDocs

====
